---- MODULE Spec2Model ----
(***************************************************************************)
(* bsutil (src/main.go): the "merge" and "peek" commands over flatfs      *)
(* blockstores.  One behaviour of the model is one invocation of the      *)
(* command line tool on a file system holding a few stores.               *)
(*                                                                         *)
(* Keys (content identifiers) are integers whose order is the order in    *)
(* which a store's directory scan reports them.  A payload is the         *)
(* sequence of bytes the key addresses.  The flatfs / blockstore calls    *)
(* (Create, Open, AllKeysChan, Get, PutMany, Sync, Close) are the         *)
(* environment: each may fail, and the model chooses the outcome.         *)
(***************************************************************************)
EXTENDS Integers, Sequences, FiniteSets, TLC

\* ------------------------------------------------------------- constants

\* len(buffer) >= 100: the flush threshold of transferBlocks.
BatchSize == 100

\* The bytes of the regular files a store's layout holds beside its blocks:
\* the SHARDING file flatfs.Create writes for flatfs.NextToLast(3)
\* ("/repo/flatfs/shard/v1/next-to-last/3" and a line break).  flatfs.Open
\* refuses a directory without it, so every opened store holds it.
LayoutBytes == 37

\* ---------------------------------------------------------------- bounds

\* A source store holds 100*q + r blocks, q in 0..MaxFull, r in {0, Rem}.
MaxFull == 2
Rem == 50

\* ------------------------------------------------------------ the stores

SourcePaths == {"a", "b", "c"}
\* "z" is a path holding no store; "out" is the merge's output path.
Paths == SourcePaths \cup {"z", "out"}

Base(p) == CASE p = "a" -> 0 [] p = "b" -> 1000 [] p = "c" -> 2000 [] OTHER -> 3000

\* The payload a key addresses: identifiers are content-derived, so the key
\* determines the bytes.  Payloads are 2 or 3 bytes long.
Data(k) == IF k % 2 = 0 THEN <<k % 256, k \div 256>>
                        ELSE <<k % 256, k \div 256, 255>>

NoStore == [layout |-> FALSE, blocks |-> <<>>]
EmptyStore == [layout |-> TRUE, blocks |-> <<>>]
StoreOf(p, size) == [layout |-> TRUE,
                     blocks |-> [k \in (Base(p) + 1)..(Base(p) + size) |-> Data(k)]]

Keys(store) == DOMAIN store.blocks

Sizes == {BatchSize * q + r : q \in 0..MaxFull, r \in {0, Rem}}

\* The input lists (-i flags) the tool is run with.
InputLists == { <<>>, <<"a">>, <<"a", "a">>, <<"a", "b">>, <<"a", "z">>,
                <<"a", "b", "c">>, <<"b", "a", "c">> }

\* ------------------------------------------------------------- variables

VARIABLES
    cmd,          \* "merge" | "peek": the command run
    inputs,       \* ctx.StringSlice("input")
    sizes,        \* the number of blocks each source store held at start
    fresh,        \* the output path held no store at start
    disk,         \* path -> the store on disk
    pc,           \* position in the command
    idx,          \* 1-based index of the range loop over the inputs
    outputDS,     \* "nil" | "open" | "closed"
    outSynced,    \* outputDS.Sync has returned nil
    inputDS,      \* "nil" | "open" | "closed": this iteration's inputDS
    inputSize,    \* dirSize's result for this iteration
    allLMDBKeys,  \* the keys the channel has yet to deliver
    buffer,       \* transferBlocks' buffer
    barTotal,     \* pb.New64(size)
    barCurrent,   \* the sum of bar.Add
    printedKeys,  \* the keys peek has printed
    messages,     \* the other lines printed
    err,          \* the error the command returned ("nil": none)
    failure,      \* the call that failed ("none": none)
    nOpen,        \* the flatfs.Open calls issued on inputs
    gets,         \* per input: the Get calls issued
    puts,         \* per input: the PutMany calls issued
    lastCall      \* the latest call on a store: what, on which path, with which keys

vars == <<cmd, inputs, sizes, fresh, disk, pc, idx, outputDS, outSynced, inputDS,
          inputSize, allLMDBKeys, buffer, barTotal, barCurrent, printedKeys,
          messages, err, failure, nOpen, gets, puts, lastCall>>

\* ------------------------------------------------- the store collaborator

Output == "out"

\* The least and the greatest key of a set (a greatest key has no successor
\* in the set).
SetMin(S) == CHOOSE x \in S : \A y \in S : x <= y
SetMax(S) == CHOOSE x \in S : (x + 1) \notin S /\ \A y \in S : y <= x

\* The keys of S in ascending order.
Ascending(S) ==
    IF S = {} THEN <<>>
    ELSE LET lo == SetMin(S)
             hi == SetMax(S)
             InS(k) == k \in S
         IN SelectSeq([j \in 1..(hi - lo + 1) |-> lo + j - 1], InS)

\* AllKeysChan: every key of the store, in the order of the directory scan.
Enumerate(store) == Ascending(Keys(store))

\* A block: <<cid, raw data>>.
Cid(block) == block[1]
RawData(block) == block[2]

\* blockstore.PutMany: every block of the batch not yet stored is written
\* under its key; a key already stored is skipped.
PutMany(store, blks) ==
    LET cids == {Cid(blks[j]) : j \in DOMAIN blks}
        written == [k \in cids |->
                      RawData(blks[CHOOSE j \in DOMAIN blks : Cid(blks[j]) = k])]
    IN [store EXCEPT !.blocks = @ @@ written]

\* What a failing PutMany may have persisted: the caller cannot tell which
\* blocks of the batch.  The subsets explored are the prefixes and suffixes
\* of the batch holding none, one, all but one or all of its blocks.
PartialWrites(blks) ==
    {SubSeq(blks, 1, m) : m \in {0, 1, Len(blks) - 1, Len(blks)}}
        \cup {SubSeq(blks, m, Len(blks)) : m \in {2, Len(blks)}}

\* ------------------------------------------------------------- dirSize

\* The sum of the sizes of the files holding the blocks: size += info.Size().
\* The files are summed by size class (the sizes that occur, each times the
\* number of files of that size).
RECURSIVE SumSizes(_, _)
SumSizes(blocks, lens) ==
    IF lens = {} THEN 0
    ELSE LET l == CHOOSE x \in lens : TRUE
         IN l * Cardinality({k \in DOMAIN blocks : Len(blocks[k]) = l})
              + SumSizes(blocks, lens \ {l})

BlockBytes(blocks) == SumSizes(blocks, {Len(blocks[k]) : k \in DOMAIN blocks})

\* size += info.Size() for the directory entries too: the store's root.
dirSizeCountingDirs(store) == LayoutBytes + BlockBytes(store.blocks) + 4096

\* The regular files filepath.Walk visits under a store's directory: the
\* layout's SHARDING file and one file per block, as long as its payload.
\* Directory entries are skipped.
dirSize(store) == LayoutBytes + BlockBytes(store.blocks)

\* ------------------------------------------------------------------ Init

\* A call on the store at a path; cids are the keys it is given.
Call(op, path, cids) == [op |-> op, path |-> path, cids |-> cids]

SizeChoices(p) == CASE p = "a" -> Sizes
                    [] p = "b" -> {0, BatchSize + Rem}
                    [] OTHER -> {BatchSize}

Range(s) == {s[j] : j \in DOMAIN s}

\* The store an earlier merge of source "a" left at the output path.
PriorOutput(sz) == [layout |-> TRUE,
                    blocks |-> [k \in 1..(BatchSize * (sz["a"] \div BatchSize)) |-> Data(k)]]

DiskOf(sz, fr) ==
    [p \in Paths |->
        IF p \in SourcePaths THEN StoreOf(p, sz[p])
        ELSE IF p = Output /\ ~fr THEN PriorOutput(sz)
        ELSE NoStore]

Init ==
    /\ cmd \in {"merge", "peek"}
    /\ inputs \in InputLists
    /\ sizes \in [SourcePaths -> Sizes \cup {0}]
    /\ \A p \in SourcePaths :
          sizes[p] \in (IF p \in Range(inputs) THEN SizeChoices(p) ELSE {0})
    /\ fresh \in BOOLEAN
    /\ cmd = "peek" => fresh
    /\ disk = DiskOf(sizes, fresh)
    /\ pc = IF cmd = "merge" THEN "create" ELSE "p_check"
    /\ idx = 0
    /\ outputDS = "nil"
    /\ outSynced = FALSE
    /\ inputDS = "nil"
    /\ inputSize = 0
    /\ allLMDBKeys = <<>>
    /\ buffer = <<>>
    /\ barTotal = 0
    /\ barCurrent = 0
    /\ printedKeys = <<>>
    /\ messages = <<>>
    /\ err = "nil"
    /\ failure = "none"
    /\ nOpen = 0
    /\ gets = [j \in DOMAIN inputs |-> 0]
    /\ puts = [j \in DOMAIN inputs |-> 0]
    /\ lastCall = Call("none", "", <<>>)

\* ------------------------------------------------------------- returning

\* break in place of return err: a failure within the loop over the inputs
\* goes on to the code after the loop.
ReturnBreaksLoop(op, e) ==
    /\ pc' = IF op \in {"open_in", "dirsize", "keys", "get", "putmany"}
             THEN "sync" ELSE "aborted"
    /\ err' = e
    /\ failure' = op

\* return err: the command ends with the error of the call that failed.
Return(op, e) ==
    /\ pc' = "aborted"
    /\ err' = e
    /\ failure' = op

LoopHeadSkippingSync(j) == IF j <= Len(inputs) THEN "open_in" ELSE "close_out"

\* The range loop over the inputs: the next iteration, or the code after it.
LoopHead(j) == IF j <= Len(inputs) THEN "open_in" ELSE "sync"

\* --------------------------------------------------------------- cmdMerge

MergeCreateIgnoringError ==
    /\ pc = "create"
    /\ lastCall' = Call("create", Output, <<>>)
    /\ disk' = [disk EXCEPT ![Output] = IF @.layout THEN @ ELSE EmptyStore]
    /\ pc' = "open_out"
    /\ UNCHANGED <<cmd, inputs, sizes, fresh, idx, outputDS, outSynced, inputDS,
                   inputSize, allLMDBKeys, buffer, barTotal, barCurrent,
                   printedKeys, messages, err, failure, nOpen, gets, puts>>

\* flatfs.Create(output, NextToLast(3)): fails where a store already is.
MergeCreate ==
    /\ pc = "create"
    /\ lastCall' = Call("create", Output, <<>>)
    /\ IF disk[Output].layout
       THEN /\ Return("create", "AlreadyExists")
            /\ UNCHANGED disk
       ELSE \/ /\ disk' = [disk EXCEPT ![Output] = EmptyStore]
               /\ pc' = "open_out"
               /\ UNCHANGED <<err, failure>>
            \/ /\ Return("create", "IOError")
               /\ UNCHANGED disk
    /\ UNCHANGED <<cmd, inputs, sizes, fresh, idx, outputDS, outSynced, inputDS,
                   inputSize, allLMDBKeys, buffer, barTotal, barCurrent,
                   printedKeys, messages, nOpen, gets, puts>>

\* flatfs.Open(output, false)
MergeOpenOutput ==
    /\ pc = "open_out"
    /\ lastCall' = Call("open", Output, <<>>)
    /\ \/ /\ disk[Output].layout
          /\ outputDS' = "open"
          /\ pc' = "check_inputs"
          /\ UNCHANGED <<err, failure>>
       \/ /\ Return("open_out", "IOError")
          /\ UNCHANGED outputDS
    /\ UNCHANGED <<cmd, inputs, sizes, fresh, disk, idx, outSynced, inputDS,
                   inputSize, allLMDBKeys, buffer, barTotal, barCurrent,
                   printedKeys, messages, nOpen, gets, puts>>

\* No check of the number of inputs.
MergeCheckInputsMissing ==
    /\ pc = "check_inputs"
    /\ idx' = 1
    /\ pc' = LoopHead(1)
    /\ UNCHANGED <<cmd, inputs, sizes, fresh, disk, outputDS, outSynced, inputDS,
                   inputSize, allLMDBKeys, buffer, barTotal, barCurrent,
                   printedKeys, messages, err, failure, nOpen, gets, puts, lastCall>>

\* len(ctx.StringSlice("input")) == 0, checked after the output is open.
MergeCheckInputs ==
    /\ pc = "check_inputs"
    /\ UNCHANGED lastCall
    /\ IF Len(inputs) = 0
       THEN /\ Return("no_inputs", "at least one input is required")
            /\ UNCHANGED idx
       ELSE /\ idx' = 1
            /\ pc' = LoopHead(1)
            /\ UNCHANGED <<err, failure>>
    /\ UNCHANGED <<cmd, inputs, sizes, fresh, disk, outputDS, outSynced, inputDS,
                   inputSize, allLMDBKeys, buffer, barTotal, barCurrent,
                   printedKeys, messages, nOpen, gets, puts>>

\* flatfs.Open(inputPath, false)
MergeOpenInput ==
    /\ pc = "open_in"
    /\ lastCall' = Call("open", inputs[idx], <<>>)
    /\ nOpen' = nOpen + 1
    /\ IF ~disk[inputs[idx]].layout
       THEN /\ Return("open_in", "NotFound")
            /\ UNCHANGED inputDS
       ELSE \/ /\ inputDS' = "open"
               /\ pc' = "dirsize"
               /\ UNCHANGED <<err, failure>>
            \/ /\ Return("open_in", "IOError")
               /\ UNCHANGED inputDS
    /\ UNCHANGED <<cmd, inputs, sizes, fresh, disk, idx, outputDS, outSynced,
                   inputSize, allLMDBKeys, buffer, barTotal, barCurrent,
                   printedKeys, messages, gets, puts>>

\* inputSize, err := dirSize(inputPath)
MergeDirSize ==
    /\ pc = "dirsize"
    /\ lastCall' = Call("dirsize", inputs[idx], <<>>)
    /\ \/ /\ inputSize' = dirSize(disk[inputs[idx]])
          /\ pc' = "keys"
          /\ UNCHANGED <<err, failure>>
       \/ /\ Return("dirsize", "IOError")
          /\ UNCHANGED inputSize
    /\ UNCHANGED <<cmd, inputs, sizes, fresh, disk, idx, outputDS, outSynced,
                   inputDS, allLMDBKeys, buffer, barTotal, barCurrent,
                   printedKeys, messages, nOpen, gets, puts>>

\* --------------------------------------------------------- transferBlocks

NewBufferCarriedOver(previous) == previous

\* var buffer []blocks.Block: every call starts with its own empty buffer,
\* whatever the previous call left in its own.
NewBuffer(previous) == <<>>

FlushDueOffByOne(buf) == Len(buf) > BatchSize

\* len(buffer) >= 100
FlushDue(buf) == Len(buf) >= BatchSize

AfterFlushKeepsBuffer(buf) == buf

\* buffer = nil
AfterFlush(buf) == <<>>

\* The block comes back one byte short.
GetTruncated(store, cid) == <<cid, Tail(store.blocks[cid])>>

\* from.Get(ctx, cid): the block stored under cid.
Get(store, cid) == <<cid, store.blocks[cid]>>

\* The stores handed over in the wrong order.
TransferToSwapped(in, out) == in

\* transferBlocks(ctx.Context, input, output, inputSize): from is the input
\* store of this iteration, to is the output store.
TransferFrom(in, out) == in
TransferTo(in, out) == out

TransferErrorSkipsKey(op, e) ==
    /\ pc' = pc
    /\ err' = e
    /\ failure' = op

\* return fmt.Errorf(...) in the range loop, which cmdMerge returns in turn:
\* the transfer and the command end at the first Get or PutMany that fails.
TransferError(op, e) == Return(op, e)

\* The "Merging ..." line, from.AllKeysChan(ctx), the buffer and the bar.
TransferStart ==
    /\ pc = "keys"
    /\ lastCall' = Call("keys", TransferFrom(inputs[idx], Output), <<>>)
    /\ messages' = Append(messages, "Merging")
    /\ \/ /\ allLMDBKeys' = Enumerate(disk[TransferFrom(inputs[idx], Output)])
          /\ buffer' = NewBuffer(buffer)
          /\ barTotal' = inputSize
          /\ barCurrent' = 0
          /\ pc' = "transfer"
          /\ UNCHANGED <<err, failure>>
       \/ /\ Return("keys", "IOError")
          /\ UNCHANGED <<allLMDBKeys, buffer, barTotal, barCurrent>>
    /\ UNCHANGED <<cmd, inputs, sizes, fresh, disk, idx, outputDS, outSynced,
                   inputDS, inputSize, printedKeys, nOpen, gets, puts>>

\* One iteration of "for cid := range allLMDBKeys".
TransferStep ==
    /\ pc = "transfer"
    /\ allLMDBKeys # <<>>
    /\ LET cid == Head(allLMDBKeys)
           fromPath == TransferFrom(inputs[idx], Output)
           toPath == TransferTo(inputs[idx], Output)
           from == disk[fromPath]
       IN /\ allLMDBKeys' = Tail(allLMDBKeys)
          /\ gets' = [gets EXCEPT ![idx] = @ + 1]
          /\ \/ \* from.Get fails
                /\ TransferError("get", IF cid \in Keys(from) THEN "IOError" ELSE "NotFound")
                /\ lastCall' = Call("get", fromPath, <<cid>>)
                /\ UNCHANGED <<disk, buffer, barCurrent, puts>>
             \/ /\ cid \in Keys(from)
                /\ LET block == Get(from, cid)
                       appended == Append(buffer, block)
                       batch == [j \in DOMAIN appended |-> Cid(appended[j])]
                   IN IF FlushDue(appended)
                      THEN /\ puts' = [puts EXCEPT ![idx] = @ + 1]
                           /\ lastCall' = Call("putmany", toPath, batch)
                           /\ \/ /\ disk' = [disk EXCEPT ![toPath] = PutMany(@, appended)]
                                 /\ buffer' = AfterFlush(appended)
                                 /\ barCurrent' = barCurrent + Len(RawData(block))
                                 /\ UNCHANGED <<pc, err, failure>>
                              \/ \* to.PutMany fails
                                 /\ \E w \in PartialWrites(appended) :
                                       disk' = [disk EXCEPT ![toPath] = PutMany(@, w)]
                                 /\ buffer' = appended
                                 /\ TransferError("putmany", "IOError")
                                 /\ UNCHANGED barCurrent
                      ELSE /\ buffer' = appended
                           /\ lastCall' = Call("get", fromPath, <<cid>>)
                           /\ barCurrent' = barCurrent + Len(RawData(block))
                           /\ UNCHANGED <<disk, puts, pc, err, failure>>
    /\ UNCHANGED <<cmd, inputs, sizes, fresh, idx, outputDS, outSynced, inputDS,
                   inputSize, barTotal, printedKeys, messages, nOpen>>

\* The loop goes to the next input without closing this one.
TransferReturnSkipsClose ==
    /\ pc = "transfer"
    /\ allLMDBKeys = <<>>
    /\ idx' = idx + 1
    /\ pc' = LoopHead(idx + 1)
    /\ UNCHANGED <<cmd, inputs, sizes, fresh, disk, outputDS, outSynced,
                   inputDS, inputSize, allLMDBKeys, buffer, barTotal, barCurrent,
                   printedKeys, messages, err, failure, nOpen, gets, puts, lastCall>>

\* The channel is drained: return nil, whatever the buffer still holds.
TransferReturn ==
    /\ pc = "transfer"
    /\ UNCHANGED lastCall
    /\ allLMDBKeys = <<>>
    /\ pc' = "close_in"
    /\ UNCHANGED <<cmd, inputs, sizes, fresh, disk, idx, outputDS, outSynced,
                   inputDS, inputSize, allLMDBKeys, buffer, barTotal, barCurrent,
                   printedKeys, messages, err, failure, nOpen, gets, puts>>

\* ------------------------------------------------- cmdMerge, after transfer

\* return err where the close of an input fails.
MergeCloseInputFatal ==
    /\ pc = "close_in"
    /\ lastCall' = Call("close", inputs[idx], <<>>)
    /\ \/ /\ inputDS' = "closed"
          /\ idx' = idx + 1
          /\ pc' = LoopHead(idx + 1)
          /\ UNCHANGED <<messages, err, failure>>
       \/ /\ messages' = Append(messages, "Failed to close input blockstore")
          /\ Return("close_in", "IOError")
          /\ UNCHANGED <<inputDS, idx>>
    /\ UNCHANGED <<cmd, inputs, sizes, fresh, disk, outputDS, outSynced,
                   inputSize, allLMDBKeys, buffer, barTotal, barCurrent,
                   printedKeys, nOpen, gets, puts>>

\* inputDS.Close(): a failure is printed and the loop goes on.
MergeCloseInput ==
    /\ pc = "close_in"
    /\ lastCall' = Call("close", inputs[idx], <<>>)
    /\ \/ /\ inputDS' = "closed"
          /\ UNCHANGED messages
       \/ /\ messages' = Append(messages, "Failed to close input blockstore")
          /\ UNCHANGED inputDS
    /\ idx' = idx + 1
    /\ pc' = LoopHead(idx + 1)
    /\ UNCHANGED <<cmd, inputs, sizes, fresh, disk, outputDS, outSynced,
                   inputSize, allLMDBKeys, buffer, barTotal, barCurrent,
                   printedKeys, err, failure, nOpen, gets, puts>>

\* outputDS.Sync(ctx, datastore.NewKey("/"))
MergeSync ==
    /\ pc = "sync"
    /\ lastCall' = Call("sync", Output, <<>>)
    /\ \/ /\ outSynced' = TRUE
          /\ pc' = "close_out"
          /\ UNCHANGED <<err, failure>>
       \/ /\ Return("sync", "IOError")
          /\ UNCHANGED outSynced
    /\ UNCHANGED <<cmd, inputs, sizes, fresh, disk, idx, outputDS, inputDS,
                   inputSize, allLMDBKeys, buffer, barTotal, barCurrent,
                   printedKeys, messages, nOpen, gets, puts>>

\* outputDS.Close(), then "Finished merging" and return nil.
MergeCloseOutput ==
    /\ pc = "close_out"
    /\ lastCall' = Call("close", Output, <<>>)
    /\ \/ /\ outputDS' = "closed"
          /\ messages' = Append(messages, "Finished merging")
          /\ pc' = "done"
          /\ UNCHANGED <<err, failure>>
       \/ /\ Return("close_out", "IOError")
          /\ UNCHANGED <<outputDS, messages>>
    /\ UNCHANGED <<cmd, inputs, sizes, fresh, disk, idx, outSynced, inputDS,
                   inputSize, allLMDBKeys, buffer, barTotal, barCurrent,
                   printedKeys, nOpen, gets, puts>>

\* ---------------------------------------------------------------- cmdPeek

PeekLoopHeadOffByOne(j) == IF j < Len(inputs) THEN "p_open" ELSE "done"

PeekLoopHead(j) == IF j <= Len(inputs) THEN "p_open" ELSE "done"

\* len(ctx.StringSlice("input")) == 0
PeekCheckInputs ==
    /\ pc = "p_check"
    /\ UNCHANGED lastCall
    /\ IF Len(inputs) = 0
       THEN /\ Return("no_inputs", "at least one input is required")
            /\ UNCHANGED idx
       ELSE /\ idx' = 1
            /\ pc' = PeekLoopHead(1)
            /\ UNCHANGED <<err, failure>>
    /\ UNCHANGED <<cmd, inputs, sizes, fresh, disk, outputDS, outSynced, inputDS,
                   inputSize, allLMDBKeys, buffer, barTotal, barCurrent,
                   printedKeys, messages, nOpen, gets, puts>>

\* flatfs.Open(inputPath, false)
PeekOpen ==
    /\ pc = "p_open"
    /\ lastCall' = Call("open", inputs[idx], <<>>)
    /\ nOpen' = nOpen + 1
    /\ IF ~disk[inputs[idx]].layout
       THEN /\ Return("open_in", "NotFound")
            /\ UNCHANGED inputDS
       ELSE \/ /\ inputDS' = "open"
               /\ pc' = "p_keys"
               /\ UNCHANGED <<err, failure>>
            \/ /\ Return("open_in", "IOError")
               /\ UNCHANGED inputDS
    /\ UNCHANGED <<cmd, inputs, sizes, fresh, disk, idx, outputDS, outSynced,
                   inputSize, allLMDBKeys, buffer, barTotal, barCurrent,
                   printedKeys, messages, gets, puts>>

\* The "Peeking at ..." line and input.AllKeysChan(ctx.Context).
PeekKeys ==
    /\ pc = "p_keys"
    /\ lastCall' = Call("keys", inputs[idx], <<>>)
    /\ messages' = Append(messages, "Peeking")
    /\ \/ /\ allLMDBKeys' = Enumerate(disk[inputs[idx]])
          /\ pc' = "p_print"
          /\ UNCHANGED <<err, failure>>
       \/ /\ Return("keys", "IOError")
          /\ UNCHANGED allLMDBKeys
    /\ UNCHANGED <<cmd, inputs, sizes, fresh, disk, idx, outputDS, outSynced,
                   inputDS, inputSize, buffer, barTotal, barCurrent,
                   printedKeys, nOpen, gets, puts>>

\* One iteration of "for key := range allLMDBKeys": fmt.Println(key).
PeekPrint ==
    /\ pc = "p_print"
    /\ UNCHANGED lastCall
    /\ allLMDBKeys # <<>>
    /\ printedKeys' = Append(printedKeys, Head(allLMDBKeys))
    /\ allLMDBKeys' = Tail(allLMDBKeys)
    /\ UNCHANGED <<cmd, inputs, sizes, fresh, disk, pc, idx, outputDS, outSynced,
                   inputDS, inputSize, buffer, barTotal, barCurrent,
                   messages, err, failure, nOpen, gets, puts>>

\* inputDS.Close() once the channel is drained; a failure is printed.
PeekClose ==
    /\ pc = "p_print"
    /\ lastCall' = Call("close", inputs[idx], <<>>)
    /\ allLMDBKeys = <<>>
    /\ \/ /\ inputDS' = "closed"
          /\ UNCHANGED messages
       \/ /\ messages' = Append(messages, "Failed to close input blockstore")
          /\ UNCHANGED inputDS
    /\ idx' = idx + 1
    /\ pc' = PeekLoopHead(idx + 1)
    /\ UNCHANGED <<cmd, inputs, sizes, fresh, disk, outputDS, outSynced,
                   inputSize, allLMDBKeys, buffer, barTotal, barCurrent,
                   printedKeys, err, failure, nOpen, gets, puts>>

\* ------------------------------------------------------ the specification

Next ==
    \/ MergeCreate
    \/ MergeOpenOutput
    \/ MergeCheckInputs
    \/ MergeOpenInput
    \/ MergeDirSize
    \/ TransferStart
    \/ TransferStep
    \/ TransferReturn
    \/ MergeCloseInput
    \/ MergeSync
    \/ MergeCloseOutput
    \/ PeekCheckInputs
    \/ PeekOpen
    \/ PeekKeys
    \/ PeekPrint
    \/ PeekClose

Spec == Init /\ [][Next]_vars

\* The command is one thread in which every call returns: as long as a step
\* is possible, one is taken.
FairSpec == Spec /\ WF_vars(Next)

\* ------------------------------------------------- what the claims speak of

Dest == disk[Output]

\* The number of blocks of a store that full batches carry.
FlushedCount(store) == BatchSize * (Cardinality(Keys(store)) \div BatchSize)

\* The keys of the first m blocks of a store's enumeration.
FirstKeys(store, m) == LET ks == Enumerate(store) IN {ks[j] : j \in 1..m}

FlushedKeys(store) == FirstKeys(store, FlushedCount(store))

\* Every key of ks is in store "to" with the payload it has in store "from".
Carries(to, from, ks) ==
    /\ ks \subseteq Keys(to)
    /\ \A k \in ks : to.blocks[k] = from.blocks[k]

Finished == \E j \in DOMAIN messages : messages[j] = "Finished merging"

MergeDone == cmd = "merge" /\ pc = "done"

\* C1: a merge of one source of n blocks that ends in Done leaves in the
\* destination exactly the first 100*floor(n/100) blocks of the source's
\* enumeration, each with the source's payload: all of the source when n is a
\* multiple of 100, and none of the trailing n mod 100 blocks otherwise.
C1_RoundTrip ==
    (MergeDone /\ Len(inputs) = 1) =>
        LET src == disk[inputs[1]]
            n == Cardinality(Keys(src))
            ks == Enumerate(src)
        IN /\ Keys(Dest) = FlushedKeys(src)
           /\ Carries(Dest, src, FlushedKeys(src))
           /\ Cardinality(Keys(Dest)) = BatchSize * (n \div BatchSize)
           /\ (n % BatchSize = 0 => Dest.blocks = src.blocks)
           /\ \A j \in (FlushedCount(src) + 1)..n : ks[j] \notin Keys(Dest)

C1_Witness ==
    /\ MergeDone
    /\ inputs = <<"a">>
    /\ sizes["a"] = BatchSize * MaxFull + Rem
    /\ Cardinality(Keys(Dest)) = BatchSize * MaxFull
    /\ Base("a") + BatchSize * MaxFull + 1 \notin Keys(Dest)

RECURSIVE SumFlushed(_)
SumFlushed(j) == IF j = 0 THEN 0 ELSE FlushedCount(disk[inputs[j]]) + SumFlushed(j - 1)

DistinctInputs == \A j, l \in DOMAIN inputs : j # l => inputs[j] # inputs[l]

\* C2: a merge of k sources with pairwise disjoint key sets that ends in Done
\* leaves in the destination, for every source i of n_i blocks, exactly the
\* first 100*floor(n_i/100) blocks of its enumeration (a source's unflushed
\* remainder is not carried into the next source's batch), so the destination
\* holds the sum over i of 100*floor(n_i/100) blocks.
C2_NWayUnion ==
    (MergeDone /\ DistinctInputs) =>
        /\ Keys(Dest) = UNION {FlushedKeys(disk[inputs[j]]) : j \in DOMAIN inputs}
        /\ \A j \in DOMAIN inputs :
              Carries(Dest, disk[inputs[j]], FlushedKeys(disk[inputs[j]]))
        /\ Cardinality(Keys(Dest)) = SumFlushed(Len(inputs))

\* Two sources whose remainders together would fill a batch.
C2_Witness ==
    /\ MergeDone
    /\ inputs = <<"a", "b">>
    /\ sizes["a"] = BatchSize + Rem
    /\ sizes["b"] = BatchSize + Rem
    /\ 2 * Rem >= BatchSize
    /\ Cardinality(Keys(Dest)) = 2 * BatchSize

\* The loop is transferring a source that an earlier iteration of this run
\* has transferred already.
ReMerging ==
    /\ cmd = "merge"
    /\ pc = "transfer"
    /\ \E j \in 1..(idx - 1) : inputs[j] = inputs[idx]

\* C3: merging a source a second time into the destination that already
\* holds its blocks changes nothing there: no step of the second transfer
\* changes the destination's key set or any key's payload.
C3_IdempotentReMerge ==
    [][ReMerging => disk'[Output] = disk[Output]]_vars

C3_Witness ==
    /\ ReMerging
    /\ puts[idx] >= 1
    /\ Cardinality(Keys(Dest)) = FlushedCount(disk[inputs[idx]])
    /\ Keys(Dest) # {}

\* The PutMany calls of the current source that returned nil.
PutsDone == puts[idx] - (IF failure = "putmany" THEN 1 ELSE 0)

\* C4: when the merge of three sources fails in a Get or PutMany of source 2,
\* the command has ended with an error and without "Finished merging", and
\* the destination still holds every block of every full batch of source 1
\* and of every batch of source 2 flushed before the failing call.
C4_AbortKeepsWrites ==
    (cmd = "merge" /\ Len(inputs) = 3 /\ idx = 2 /\ failure \in {"get", "putmany"}) =>
        /\ pc = "aborted"
        /\ err # "nil"
        /\ ~Finished
        /\ Carries(Dest, disk[inputs[1]], FlushedKeys(disk[inputs[1]]))
        /\ Carries(Dest, disk[inputs[2]], FirstKeys(disk[inputs[2]], BatchSize * PutsDone))

C4_Witness ==
    /\ cmd = "merge" /\ Len(inputs) = 3 /\ idx = 2
    /\ failure = "get"
    /\ pc = "aborted"
    /\ PutsDone >= 1
    /\ FlushedCount(disk[inputs[1]]) >= BatchSize
    /\ Cardinality(Keys(Dest)) = FlushedCount(disk[inputs[1]]) + BatchSize * PutsDone

NoCalls == \A j \in DOMAIN inputs : gets[j] = 0 /\ puts[j] = 0

\* C5: a merge whose output path already holds a store fails in
\* flatfs.Create with AlreadyExists and writes nothing: the store at the
\* output path (and every other) is as it was, the output is never opened,
\* and no source is opened, enumerated or read.
C5_DestinationCollision ==
    (cmd = "merge" /\ ~fresh) =>
        /\ disk = DiskOf(sizes, fresh)
        /\ outputDS = "nil" /\ ~outSynced
        /\ nOpen = 0 /\ inputDS = "nil" /\ allLMDBKeys = <<>> /\ NoCalls
        /\ pc \in {"create", "aborted"}
        /\ pc = "aborted" => (failure = "create" /\ err = "AlreadyExists")

C5_Witness ==
    /\ cmd = "merge" /\ ~fresh
    /\ pc = "aborted" /\ err = "AlreadyExists"
    /\ Keys(Dest) # {}
    /\ Len(inputs) = 2

\* cmdMerge is within the loop iteration of a source that holds no block.
EmptyTurn ==
    /\ cmd = "merge"
    /\ pc \in {"open_in", "dirsize", "keys", "transfer"}
    /\ disk[inputs[idx]].layout
    /\ Keys(disk[inputs[idx]]) = {}

\* What every step of the iteration of an empty source does, the estimate
\* handed to the bar aside.
EmptyTurnStep ==
    /\ disk' = disk
    /\ gets' = gets /\ puts' = puts
    /\ failure' \notin {"get", "putmany"}
    /\ pc = "transfer" => (pc' = "close_in" /\ err' = "nil")

\* C6 as stated: merging a source of zero blocks succeeds, leaves the
\* destination unchanged, issues no PutMany, and hands the progress bar a
\* total of 0 bytes.
C6_Original ==
    [][EmptyTurn => (EmptyTurnStep /\ (pc' = "transfer" => barTotal' = 0))]_vars

\* C6, amended: merging a source of zero blocks succeeds, leaves the
\* destination unchanged and issues no Get or PutMany; the total handed to
\* the progress bar is dirSize of the source's directory, which for a store
\* of zero blocks is the size of the layout's own files (the SHARDING file),
\* and no byte of progress is added.
C6_EmptySource ==
    [][EmptyTurn =>
         /\ EmptyTurnStep
         /\ pc' = "transfer" =>
               /\ barTotal' = dirSize(disk[inputs[idx]])
               /\ barTotal' = LayoutBytes
               /\ barCurrent' = 0]_vars

C6_Witness ==
    /\ MergeDone
    /\ inputs = <<"a">> /\ sizes["a"] = 0
    /\ barTotal = LayoutBytes /\ barCurrent = 0
    /\ Keys(Dest) = {} /\ NoCalls
    /\ Finished

\* C7: "Finished merging" and a nil error come only after every source has
\* been transferred, the output has then been synced and then closed, each
\* with success; the output is never closed unsynced; a failing Sync ends
\* the command with its error and the output still open (Close is not
\* called), and a failing Close ends it with its error too.
C7_FinalizeOrdering ==
    cmd = "merge" =>
        /\ (pc = "done" \/ Finished) =>
              /\ pc = "done" /\ Finished
              /\ err = "nil" /\ failure = "none"
              /\ idx = Len(inputs) + 1
              /\ \A j \in DOMAIN inputs :
                    gets[j] = Cardinality(Keys(disk[inputs[j]]))
              /\ outSynced /\ outputDS = "closed"
        /\ outputDS = "closed" => outSynced
        /\ pc = "close_out" => (outSynced /\ idx = Len(inputs) + 1)
        /\ pc = "sync" => (idx = Len(inputs) + 1 /\ failure = "none")
        /\ failure = "sync" =>
              (pc = "aborted" /\ err # "nil" /\ outputDS = "open" /\ ~outSynced)
        /\ failure = "close_out" =>
              (pc = "aborted" /\ err # "nil" /\ outputDS = "open" /\ outSynced)

C7_Witness ==
    /\ MergeDone /\ Finished
    /\ Len(inputs) = 3
    /\ outSynced /\ outputDS = "closed"

\* C8: a failure to open a source, to estimate its size or to transfer it
\* ends the merge with the error, the output left open and unsynced: Sync
\* and Close have not been called on it, no later source has been opened,
\* and "Finished merging" is not printed.
C8_OrchestratorAbort ==
    (cmd = "merge" /\ failure \in {"open_in", "dirsize", "keys", "get", "putmany"}) =>
        /\ pc = "aborted"
        /\ err # "nil"
        /\ outputDS = "open"
        /\ ~outSynced
        /\ nOpen = idx
        /\ ~Finished

C8_Witness ==
    /\ cmd = "merge"
    /\ failure = "dirsize"
    /\ pc = "aborted"
    /\ idx = 2 /\ Len(inputs) = 3
    /\ outputDS = "open" /\ ~outSynced

\* The keys of the first j inputs, each store's in the order of its stream.
RECURSIVE StreamsThrough(_)
StreamsThrough(j) ==
    IF j = 0 THEN <<>> ELSE StreamsThrough(j - 1) \o Enumerate(disk[inputs[j]])

\* C9: peek prints, for every input in input order, every key of that
\* store's stream in stream order; it changes no store and syncs none; a
\* failure to open or to enumerate an input ends peek before any later input
\* is visited; a failure to close an input does not end it.
C9_PeekReadOnlyComplete ==
    cmd = "peek" =>
        /\ disk = DiskOf(sizes, fresh)
        /\ ~outSynced /\ outputDS = "nil" /\ NoCalls
        /\ pc = "p_print" => printedKeys \o allLMDBKeys = StreamsThrough(idx)
        /\ pc \in {"p_open", "p_keys"} => printedKeys = StreamsThrough(idx - 1)
        /\ pc = "done" => printedKeys = StreamsThrough(Len(inputs))
        /\ pc = "aborted" =>
              /\ failure \in {"no_inputs", "open_in", "keys"}
              /\ failure # "no_inputs" =>
                    (printedKeys = StreamsThrough(idx - 1) /\ nOpen = idx)

\* Peek has printed every key of two stores although closing one had failed.
C9_Witness ==
    /\ cmd = "peek" /\ pc = "done"
    /\ inputs = <<"a", "b">>
    /\ Len(printedKeys) = sizes["a"] + sizes["b"]
    /\ sizes["a"] > BatchSize /\ sizes["b"] > BatchSize
    /\ \E j \in DOMAIN messages : messages[j] = "Failed to close input blockstore"

TransferFailed(f) == f \in {"get", "putmany"}

\* C10: the first Get or PutMany that fails ends the transfer and the merge
\* at once with its error: a failing Get writes nothing (the buffered blocks
\* are not flushed), and after the failure no step is taken at all, so no
\* further Get or PutMany is issued.
C10_FailFast ==
    [][/\ ~TransferFailed(failure)
       /\ TransferFailed(failure') =>
             (/\ pc' = "aborted" /\ err' # "nil"
              /\ gets'[idx] = gets[idx] + 1
              /\ failure' = "get" => (disk' = disk /\ puts' = puts)
              /\ failure' = "putmany" => puts'[idx] = puts[idx] + 1)
      ]_vars

C10_Witness ==
    /\ cmd = "merge" /\ pc = "aborted"
    /\ failure = "putmany"
    /\ puts[idx] = 2
    /\ gets[idx] = 2 * BatchSize
    /\ Cardinality(Keys(Dest)) = 2 * BatchSize - 1

\* The Get calls of input j that returned a block.
GetsDone(j) == gets[j] - (IF failure = "get" /\ idx = j THEN 1 ELSE 0)

\* The bytes of the blocks the current transfer has fetched.
FetchedBytes ==
    LET src == disk[inputs[idx]]
    IN BlockBytes([k \in FirstKeys(src, GetsDone(idx)) |-> src.blocks[k]])

\* The transfer is between two keys, or has returned nil or an error.
BetweenKeysOrReturned ==
    /\ cmd = "merge"
    /\ \/ pc \in {"transfer", "close_in"}
       \/ pc = "aborted" /\ TransferFailed(failure)

\* C11: whenever the transfer is between keys or has returned, with nil or
\* with an error, the progress added to the bar is the sum of the payload
\* lengths of all blocks whose Get has succeeded so far, the block whose
\* append triggered a PutMany included.
C11_ProgressAccounting ==
    BetweenKeysOrReturned => barCurrent = FetchedBytes

\* The keys of the current source's stream, in stream order.
Stream == Enumerate(disk[inputs[idx]])

BufferCids == [j \in DOMAIN buffer |-> Cid(buffer[j])]

\* C12: the batch never holds more than 100 blocks; PutMany is called exactly
\* when the batch reaches 100 blocks, always with exactly 100 blocks, the
\* j-th call of a transfer with the keys 100(j-1)+1 .. 100j of the source's
\* stream in stream order; the batch is empty right after every PutMany that
\* succeeded.
C12_BoundedBatch ==
    (cmd = "merge" /\ (pc \in {"transfer", "close_in"} \/ TransferFailed(failure))) =>
        /\ Len(buffer) <= BatchSize
        /\ puts[idx] = GetsDone(idx) \div BatchSize
        /\ failure # "putmany" =>
              /\ Len(buffer) < BatchSize
              /\ BufferCids = SubSeq(Stream, BatchSize * puts[idx] + 1, GetsDone(idx))
        /\ lastCall.op = "putmany" =>
              /\ Len(lastCall.cids) = BatchSize
              /\ lastCall.cids = SubSeq(Stream, BatchSize * (puts[idx] - 1) + 1,
                                        BatchSize * puts[idx])
              /\ failure = "none" => buffer = <<>>

\* The second PutMany of a transfer has just returned nil.
C12_Witness ==
    /\ cmd = "merge" /\ pc = "transfer"
    /\ lastCall.op = "putmany"
    /\ puts[idx] = 2
    /\ lastCall.cids[1] = Base(inputs[idx]) + BatchSize + 1
    /\ lastCall.cids[BatchSize] = Base(inputs[idx]) + 2 * BatchSize
    /\ buffer = <<>>

Drained(j) == gets[j] = Cardinality(Keys(disk[inputs[j]])) /\ GetsDone(j) = gets[j]

\* The places of one iteration of the loop over the inputs, in order:
\* open, estimate, transfer, close.
IterationOrder ==
    /\ pc = "open_in" => pc' \in {"dirsize", "aborted"}
    /\ pc = "dirsize" => pc' \in {"keys", "aborted"}
    /\ pc = "keys" => pc' \in {"transfer", "aborted"}
    /\ pc = "transfer" => pc' \in {"transfer", "close_in", "aborted"}
    /\ pc = "close_in" => (pc' \in {"open_in", "sync"} /\ lastCall'.op = "close")

\* C13: the sources are processed one at a time in input order, each as
\* open, estimate, transfer, close; source i+1 is opened only after the
\* transfer of source i has returned nil and the close of source i has been
\* called, so every Get and PutMany is of the source in turn, with every
\* earlier source drained and no later source touched.
C13_SequentialSources ==
    [][cmd = "merge" =>
         /\ IterationOrder
         /\ nOpen' # nOpen =>
               /\ pc = "open_in" /\ nOpen' = idx
               /\ lastCall' = Call("open", inputs[idx], <<>>)
               /\ idx > 1 =>
                     /\ failure = "none" /\ Drained(idx - 1)
                     /\ lastCall = Call("close", inputs[idx - 1], <<>>)
         /\ \A j \in DOMAIN inputs :
               (gets'[j] # gets[j] \/ puts'[j] # puts[j]) =>
                   /\ j = idx /\ nOpen = idx
                   /\ \A i \in 1..(j - 1) : Drained(i)
                   /\ \A l \in (j + 1)..Len(inputs) : gets[l] = 0 /\ puts[l] = 0
                   /\ lastCall'.op = "get" => lastCall'.path = inputs[j]
                   /\ lastCall'.op = "putmany" =>
                         Range(lastCall'.cids) \subseteq Keys(disk[inputs[j]])
      ]_vars

C13_Witness ==
    /\ cmd = "merge" /\ pc = "transfer"
    /\ inputs = <<"b", "a", "c">>
    /\ idx = 3 /\ nOpen = 3
    /\ lastCall.op = "putmany"
    /\ gets[1] > BatchSize /\ gets[2] > BatchSize /\ gets[3] = BatchSize

\* The closes of an input that failed.
CloseFailures ==
    Cardinality({j \in DOMAIN messages : messages[j] = "Failed to close input blockstore"})

\* The blocks a merge of all inputs flushes: every input's full batches.
AllFlushed == UNION {FlushedKeys(disk[inputs[j]]) : j \in DOMAIN inputs}

\* C14: a close of a source that fails is only printed: the merge goes on
\* with the next source and with Sync and Close of the output, no error is
\* returned for it, and the merge still ends in Done with the destination
\* holding what it holds when every close succeeds.
C14_SourceCloseNonFatal ==
    (cmd = "merge" /\ CloseFailures > 0) =>
        /\ CloseFailures <= idx - 1
        /\ failure \in {"none", "open_in", "dirsize", "keys", "get", "putmany",
                        "sync", "close_out"}
        /\ failure = "none" => (err = "nil" /\ pc # "aborted")
        /\ pc = "done" =>
              /\ Finished /\ err = "nil"
              /\ Keys(Dest) = AllFlushed
              /\ \A j \in DOMAIN inputs :
                    Carries(Dest, disk[inputs[j]], FlushedKeys(disk[inputs[j]]))

\* Done although the close of each of three sources failed.
C14_Witness ==
    /\ MergeDone /\ Finished
    /\ Len(inputs) = 3
    /\ CloseFailures = 3
    /\ inputDS # "closed"
    /\ Cardinality(Keys(Dest)) = SumFlushed(3)
    /\ Keys(Dest) # {}

\* The keys of the blocks fetched so far from the j-th source.
Fetched(j) == FirstKeys(disk[inputs[j]], GetsDone(j))

\* Every key of ks is in the destination with the payload of a block fetched
\* from a source this run has opened.
FromFetched(ks) ==
    /\ ks \subseteq UNION {Fetched(j) : j \in 1..nOpen}
    /\ \A j \in 1..nOpen : Carries(Dest, disk[inputs[j]], Fetched(j) \cap ks)

\* The store at the output path when the run started.
DestAtStart == DiskOf(sizes, fresh)[Output]

\* C16 as stated: in every state of every merge run (here: once its first
\* call has returned), every block in the destination has the key and the
\* payload of a block fetched from a source opened so far in this run.
C16_Original ==
    (cmd = "merge" /\ pc # "create") => FromFetched(Keys(Dest))

\* C16, amended: in every state of every merge run, every block in the
\* destination that was not at the output path when the run started has the
\* key and the payload of a block fetched from a source opened so far in
\* this run, and the blocks that were there are as they were.
C16_DestinationIntegrity ==
    cmd = "merge" =>
        /\ FromFetched(Keys(Dest) \ Keys(DestAtStart))
        /\ Carries(Dest, DestAtStart, Keys(DestAtStart))

\* A PutMany of the second source failed having persisted one block of its
\* batch.
C16_Witness ==
    /\ cmd = "merge" /\ pc = "aborted" /\ failure = "putmany"
    /\ idx = 2
    /\ puts[idx] = 1
    /\ Cardinality(Keys(Dest)) = FlushedCount(disk[inputs[1]]) + 1
    /\ FlushedCount(disk[inputs[1]]) > 0

\* C17: a merge with no input never ends in Done; once the output has been
\* created and opened it returns "at least one input is required", leaving
\* the output's layout on disk, empty, open and unsynced.
C17_EmptyInputList ==
    (cmd = "merge" /\ Len(inputs) = 0) =>
        /\ pc \in {"create", "open_out", "check_inputs", "aborted"}
        /\ ~Finished
        /\ nOpen = 0
        /\ pc = "check_inputs" => (fresh /\ Dest = EmptyStore /\ outputDS = "open")
        /\ pc = "aborted" => failure \in {"create", "open_out", "no_inputs"}
        /\ (outputDS = "open" /\ pc # "check_inputs") =>
              /\ pc = "aborted" /\ failure = "no_inputs"
              /\ err = "at least one input is required"
              /\ Dest = EmptyStore
              /\ ~outSynced
        /\ failure = "no_inputs" => outputDS = "open"

C17_Witness ==
    /\ cmd = "merge" /\ Len(inputs) = 0
    /\ pc = "aborted"
    /\ err = "at least one input is required"
    /\ Dest = EmptyStore /\ outputDS = "open" /\ ~outSynced

\* C18: merge never changes a source store: the calls it issues on a source
\* path are Open, the walk of dirSize, AllKeysChan, Get and Close; Create,
\* PutMany and Sync are issued on the output path only; every source holds
\* what it held at the start, in Done and in Aborted too.
C18_SourcesUnmodified ==
    cmd = "merge" =>
        /\ \A p \in Paths \ {Output} : disk[p] = DiskOf(sizes, fresh)[p]
        /\ lastCall.op \in {"create", "putmany", "sync"} => lastCall.path = Output
        /\ (lastCall.op # "none" /\ lastCall.path # Output) =>
              /\ lastCall.op \in {"open", "dirsize", "keys", "get", "close"}
              /\ \E j \in DOMAIN inputs :
                    /\ lastCall.path = inputs[j]
                    /\ j = (IF pc \in {"open_in", "sync"} THEN idx - 1 ELSE idx)

C18_Witness ==
    /\ MergeDone
    /\ Len(inputs) = 3
    /\ \A j \in DOMAIN inputs : puts[j] > 0
    /\ \A p \in SourcePaths : disk[p] = StoreOf(p, sizes[p])
    /\ Keys(Dest) # {}

Terminal == pc \in {"done", "aborted"}

\* C19: every merge run ends: it reaches Done or Aborted and stays there;
\* each source's transfer issues at most one Get per key of its stream and
\* at most floor(n/100) PutMany calls.
C19_Termination ==
    /\ <>Terminal
    /\ [][Terminal => pc' = pc]_vars
    /\ [](cmd = "merge" =>
            \A j \in DOMAIN inputs :
                /\ gets[j] <= Cardinality(Keys(disk[inputs[j]]))
                /\ puts[j] <= Cardinality(Keys(disk[inputs[j]])) \div BatchSize)

\* Done after a transfer that issued a Get for each of its keys and two
\* PutMany calls.
C19_Witness ==
    /\ MergeDone
    /\ inputs = <<"a">>
    /\ gets[1] = BatchSize * MaxFull + Rem
    /\ puts[1] = MaxFull

====
